---------------------------- MODULE Spec2Model ----------------------------
(***************************************************************************)
(* Model of api/telegram.js: the serverless handler that relays a form     *)
(* submission to the Telegram bot API as one sendMessage call followed by  *)
(* up to two attachment calls (sendPhoto / sendDocument).                  *)
(*                                                                         *)
(* One behaviour is one invocation of handler(req, res).  Every `await`    *)
(* of the handler is a position of pc; the code between two awaits is one  *)
(* action.  JavaScript strings that the code inspects (the two attachment  *)
(* references) are sequences of one-character strings, so that            *)
(* startsWith, the regular expression of parseDataUrl, split and the       *)
(* base64 decoding are computed rather than assumed.                       *)
(***************************************************************************)
EXTENDS Integers, Sequences, FiniteSets, TLC

VARIABLES
    req,              \* the inbound request: [method, body]
    env,              \* process.env: which of BOT_TOKEN, CHAT_ID are set
    pc,               \* position of the handler
    calls,            \* outbound fetch calls, in the order they were started
    responses,        \* what was written to res, in order
    headers,          \* response headers set with res.setHeader
    log,              \* console.warn / console.error lines
    sendMessageData   \* the parsed body of the sendMessage response

vars == <<req, env, pc, calls, responses, headers, log, sendMessageData>>

-----------------------------------------------------------------------------
(* Bounds of the model *)

\* longest base64 payload generated for an inline reference
MaxPayloadLen == 2

-----------------------------------------------------------------------------
(* JavaScript values and strings *)

Undefined == [type |-> "undefined", s |-> <<>>]
Null      == [type |-> "null", s |-> <<>>]
Str(s)    == [type |-> "string", s |-> s]

\* mutant: a test against null and undefined in place of truthiness
NotNullish(v) == v.type = "string"

\* JavaScript truthiness of undefined, null and strings
Truthy(v) == v.type = "string" /\ v.s # <<>>

\* destructuring default: applies to undefined only
Default(v, d) == IF v.type = "undefined" THEN d ELSE v

StartsWith(s, p) == Len(s) >= Len(p) /\ SubSeq(s, 1, Len(p)) = p

\* index of the first occurrence of character c in s at or after from; 0 if none
RECURSIVE IndexOf(_, _, _)
IndexOf(s, c, from) ==
    IF from > Len(s) THEN 0
    ELSE IF s[from] = c THEN from
    ELSE IndexOf(s, c, from + 1)

\* String.prototype.split on a one-character separator
RECURSIVE Split(_, _)
Split(s, c) ==
    LET i == IndexOf(s, c, 1)
    IN  IF i = 0 THEN <<s>>
        ELSE <<SubSeq(s, 1, i - 1)>> \o Split(SubSeq(s, i + 1, Len(s)), c)

\* characters the regular expression's . does not match
LineTerminators == {"\n", "\r"}

HasLineTerminator(s) == \E i \in 1..Len(s) : s[i] \in LineTerminators

S_data    == <<"d", "a", "t", "a", ":">>
S_base64  == <<";", "b", "a", "s", "e", "6", "4", ",">>
S_image   == <<"i", "m", "a", "g", "e", "/">>
S_bin     == <<"b", "i", "n">>
S_dash    == <<"-">>
S_foto_ktp == <<"f", "o", "t", "o", "_", "k", "t", "p">>
S_surat_keterangan ==
    <<"s", "u", "r", "a", "t", "_", "k", "e", "t", "e", "r", "a", "n", "g", "a", "n">>

-----------------------------------------------------------------------------
(* Buffer.from(b64, 'base64') *)

B64Alphabet ==
    <<"A", "B", "C", "D", "E", "F", "G", "H", "I", "J", "K", "L", "M",
      "N", "O", "P", "Q", "R", "S", "T", "U", "V", "W", "X", "Y", "Z",
      "a", "b", "c", "d", "e", "f", "g", "h", "i", "j", "k", "l", "m",
      "n", "o", "p", "q", "r", "s", "t", "u", "v", "w", "x", "y", "z",
      "0", "1", "2", "3", "4", "5", "6", "7", "8", "9", "+", "/">>

IsB64Char(c) == \E i \in 1..Len(B64Alphabet) : B64Alphabet[i] = c

B64Value(c) == (CHOOSE i \in 1..Len(B64Alphabet) : B64Alphabet[i] = c) - 1

\* the sextets of the payload: it ends at the first '=', other characters
\* outside the alphabet are skipped
RECURSIVE Sextets(_)
Sextets(s) ==
    IF s = <<>> \/ Head(s) = "=" THEN <<>>
    ELSE IF IsB64Char(Head(s)) THEN <<B64Value(Head(s))>> \o Sextets(Tail(s))
    ELSE Sextets(Tail(s))

\* bytes of a sequence of sextets: 4 sextets give 3 bytes, a trailing group
\* of 2 gives 1 byte and of 3 gives 2 bytes
RECURSIVE BytesOf(_)
BytesOf(q) ==
    IF Len(q) < 2 THEN <<>>
    ELSE LET b1 == (q[1] * 4 + q[2] \div 16) % 256
         IN  IF Len(q) = 2 THEN <<b1>>
             ELSE LET b2 == ((q[2] % 16) * 16 + q[3] \div 4) % 256
                  IN  IF Len(q) = 3 THEN <<b1, b2>>
                      ELSE <<b1, b2, ((q[3] % 4) * 64 + q[4]) % 256>>
                               \o BytesOf(SubSeq(q, 5, Len(q)))

BufferFromBase64(b64) == BytesOf(Sextets(b64))

-----------------------------------------------------------------------------
(* Helpers declared inside the handler *)

\* isDataUrl(s)
isDataUrl(v) == v.type = "string" /\ StartsWith(v.s, S_data)

ParsedNull == [matched |-> FALSE, buffer |-> <<>>, filename |-> <<>>, mime |-> <<>>]

\* the extension chosen for a media type
ExtOf(mime) ==
    LET parts == Split(mime, "/")
    IN  IF Len(parts) >= 2 /\ parts[2] # <<>>
        THEN Split(parts[2], "+")[1]
        ELSE S_bin

\* mutant: a payload pattern that also matches line terminators
parseDataUrlDotAll(dataUrl, fallbackName) ==
    LET p == IndexOf(dataUrl, ";", Len(S_data) + 1)
    IN  IF /\ StartsWith(dataUrl, S_data)
           /\ p > Len(S_data) + 1
           /\ Len(dataUrl) >= p + Len(S_base64) - 1
           /\ SubSeq(dataUrl, p, p + Len(S_base64) - 1) = S_base64
        THEN LET mime == SubSeq(dataUrl, Len(S_data) + 1, p - 1)
                 b64  == SubSeq(dataUrl, p + Len(S_base64), Len(dataUrl))
             IN  [matched  |-> TRUE,
                  buffer   |-> BufferFromBase64(b64),
                  filename |-> fallbackName \o <<".">> \o ExtOf(mime),
                  mime     |-> mime]
        ELSE ParsedNull

\* dataUrl.match(/^data:([^;]+);base64,(.*)$/): the media type runs up to the
\* first ';' and is not empty, ";base64," follows it, and the payload holds
\* no line terminator
parseDataUrl(dataUrl, fallbackName) ==
    LET p == IndexOf(dataUrl, ";", Len(S_data) + 1)
    IN  IF /\ StartsWith(dataUrl, S_data)
           /\ p > Len(S_data) + 1
           /\ Len(dataUrl) >= p + Len(S_base64) - 1
           /\ SubSeq(dataUrl, p, p + Len(S_base64) - 1) = S_base64
           /\ ~HasLineTerminator(SubSeq(dataUrl, p + Len(S_base64), Len(dataUrl)))
        THEN LET mime == SubSeq(dataUrl, Len(S_data) + 1, p - 1)
                 b64  == SubSeq(dataUrl, p + Len(S_base64), Len(dataUrl))
             IN  [matched  |-> TRUE,
                  buffer   |-> BufferFromBase64(b64),
                  filename |-> fallbackName \o <<".">> \o ExtOf(mime),
                  mime     |-> mime]
        ELSE ParsedNull

-----------------------------------------------------------------------------
(* The request and its payload *)

TextFields ==
    {"nama_lengkap", "nik", "tempat_lahir", "tanggal_lahir", "alamat",
     "no_telepon", "email", "alasan"}

S_Menunggu == <<"M", "e", "n", "u", "n", "g", "g", "u">>

\* new Date().toISOString() at the time of the request
Now == <<"T", "0">>

\* new Date(d).toLocaleString('id-ID')
LocaleString(d) == <<"i", "d", "-", "I", "D", " ">> \o d

\* req.body || {} : an absent body reads as the empty object
EmptyPayload ==
    [f \in TextFields \cup
           {"foto_ktp_url", "surat_keterangan_url", "tanggal_pengajuan", "status"}
       |-> Undefined]

foto_ktp_url(payload) == Default(payload.foto_ktp_url, Null)

surat_keterangan_url(payload) == Default(payload.surat_keterangan_url, Null)

\* the lines of the summary, each a label and its rendered value
SummaryText(payload) ==
    LET val(f) == Default(payload[f], Str(S_dash)).s
    IN  << <<"Pengajuan Izin Baru", <<>> >>,
           <<"Nama", val("nama_lengkap")>>,
           <<"NIK", val("nik")>>,
           <<"TTL", val("tempat_lahir") \o <<",", " ">> \o val("tanggal_lahir")>>,
           <<"Alamat", val("alamat")>>,
           <<"Kontak", val("no_telepon")>>,
           <<"Email", val("email")>>,
           <<"Tanggal Pengajuan",
             LocaleString(Default(payload.tanggal_pengajuan, Str(Now)).s)>>,
           <<"Status", Default(payload.status, Str(S_Menunggu)).s>>,
           <<"Alasan", val("alasan")>> >>

-----------------------------------------------------------------------------
(* Outbound calls *)

\* fetch(.../sendMessage) with a JSON body
SendMessageCall(text) ==
    [purpose |-> "summary", method |-> "sendMessage", kind |-> "json",
     body |-> [chat_id |-> "CHAT_ID", text |-> text, parse_mode |-> "HTML",
               disable_web_page_preview |-> TRUE],
     state |-> "pending"]

\* uploadFile: fetch(.../<method>) with a multipart body
UploadCall(purpose, parsed, method, fieldName, caption) ==
    [purpose |-> purpose, method |-> method, kind |-> "multipart",
     body |-> [chat_id |-> "CHAT_ID", caption |-> caption, fieldName |-> fieldName,
               buffer |-> parsed.buffer, filename |-> parsed.filename],
     state |-> "pending"]

\* fetch(.../sendPhoto) with the URL as the photo
PhotoByUrlCall(purpose, url, caption) ==
    [purpose |-> purpose, method |-> "sendPhoto", kind |-> "json",
     body |-> [chat_id |-> "CHAT_ID", photo |-> url, caption |-> caption],
     state |-> "pending"]

\* fetch(.../sendDocument) with the URL as the document
DocumentByUrlCall(purpose, url, caption) ==
    [purpose |-> purpose, method |-> "sendDocument", kind |-> "json",
     body |-> [chat_id |-> "CHAT_ID", document |-> url, caption |-> caption],
     state |-> "pending"]

\* the last call started is the one being awaited
Settle(cs, state) == [cs EXCEPT ![Len(cs)].state = state]

-----------------------------------------------------------------------------
(* Responses *)

MethodNotAllowed == [status |-> 405, ok |-> FALSE, error |-> "METHOD_NOT_ALLOWED"]
MissingEnvResponse == [status |-> 500, ok |-> FALSE, error |-> "MISSING_ENV"]
\* mutant: the top-level catch answers with the configuration error
ServerErrorAsMissingEnv == [status |-> 500, ok |-> FALSE, error |-> "MISSING_ENV"]
ServerErrorResponse == [status |-> 500, ok |-> FALSE, error |-> "SERVER_ERROR"]
OkResponse == [status |-> 200, ok |-> TRUE, error |-> "none"]

NoHeaders == [Allow |-> "unset"]

-----------------------------------------------------------------------------
(* Control flow of the handler *)

\* mutant: only GET is rejected
MethodAllowedButGet(m) == m # "GET"

\* req.method !== 'POST' is rejected
MethodAllowed(m) == m = "POST"

\* mutant: && in place of ||
EnvMissingBoth(e) == ~e.BOT_TOKEN /\ ~e.CHAT_ID

\* !BOT_TOKEN || !CHAT_ID
EnvMissing(e) == ~e.BOT_TOKEN \/ ~e.CHAT_ID

\* the attachment blocks follow the summary in program order
NextStage(stage) ==
    CASE stage = "summary" -> "foto"
      [] stage = "foto"    -> "surat"
      [] stage = "surat"   -> "respond"

\* mutant: the call is started and not awaited
NoAwait(stage) == NextStage(stage)

\* `await fetch(...)`: the handler is suspended until the call settles
AwaitPc(stage) ==
    CASE stage = "summary" -> "awaitSummary"
      [] stage = "foto"    -> "awaitFoto"
      [] stage = "surat"   -> "awaitSurat"

\* mutant: the failure of an attachment reaches the top-level catch
AttachmentRethrow(stage) == "catch"

\* the catch of an attachment block logs and falls through to what follows
AttachmentCatch(stage) == NextStage(stage)

Unset == [kind |-> "unset", ok |-> FALSE]
JsonNull == [kind |-> "null", ok |-> FALSE]
JsonObject(ok) == [kind |-> "object", ok |-> ok]

\* mutant: a summary that is not ok is thrown
AfterSummaryFatal(data) ==
    IF data.kind = "null" \/ ~data.ok THEN "catch" ELSE NextStage("summary")

\* `if (!sendMessageData.ok)`: reading .ok of null throws, anything else goes on
AfterSummary(data) ==
    IF data.kind = "null" THEN "catch" ELSE NextStage("summary")

\* what the summary check logs
SummaryLog(data) ==
    IF data.kind = "object" /\ ~data.ok
    THEN <<[level |-> "warn", msg |-> "sendMessage failed"]>>
    ELSE <<>>

\* mutant: the identification photo is routed by media type as well
FotoUploadByType(parsed) ==
    IF StartsWith(parsed.mime, S_image)
    THEN UploadCall("foto_ktp", parsed, "sendPhoto", "photo", "Foto KTP")
    ELSE UploadCall("foto_ktp", parsed, "sendDocument", "document", "Foto KTP")

\* the upload of an inline identification photo
FotoUpload(parsed) ==
    UploadCall("foto_ktp", parsed, "sendPhoto", "photo", "Foto KTP")

\* the call for a remote identification photo
FotoByUrl(url) == PhotoByUrlCall("foto_ktp", url, "Foto KTP")

\* mutant: the image test is made on the whole media type
SuratUploadExactImage(parsed) ==
    IF parsed.mime = S_image
    THEN UploadCall("surat_keterangan", parsed, "sendPhoto", "photo", "Surat Keterangan")
    ELSE UploadCall("surat_keterangan", parsed, "sendDocument", "document",
                    "Surat Keterangan")

\* the upload of an inline supporting document
SuratUpload(parsed) ==
    IF StartsWith(parsed.mime, S_image)
    THEN UploadCall("surat_keterangan", parsed, "sendPhoto", "photo", "Surat Keterangan")
    ELSE UploadCall("surat_keterangan", parsed, "sendDocument", "document",
                    "Surat Keterangan")

\* the call for a remote supporting document
SuratByUrl(url) == DocumentByUrlCall("surat_keterangan", url, "Surat Keterangan")

Warn(msg) == [level |-> "warn", msg |-> msg]

-----------------------------------------------------------------------------
(* Inputs *)

Methods == {"POST", "GET", "PUT"}

Envs == [BOT_TOKEN : BOOLEAN, CHAT_ID : BOOLEAN]

PayloadChars == {"Q", "\n"}

Payloads == UNION {[1..k -> PayloadChars] : k \in 0..MaxPayloadLen}

MediaTypes ==
    { <<"i", "m", "a", "g", "e", "/", "j", "p", "e", "g">>,
      <<"a", "p", "p", "l", "i", "c", "a", "t", "i", "o", "n", "/", "p", "d", "f">>,
      <<"i", "m", "a", "g", "e", "/", "s", "v", "g", "+", "x", "m", "l">> }

\* data:<media-type>;base64,<payload>
InlineRefs == {S_data \o m \o S_base64 \o p : m \in MediaTypes, p \in Payloads}

\* further references that start with data:, three that the pattern rejects
\* and one media type without a subtype
OddInlineRefs ==
    { S_data \o S_base64 \o <<"Q", "Q">>,
      <<"d", "a", "t", "a", ":", "i", "m", "a", "g", "e", "/", "p", "n", "g", ",", "Q", "Q">>,
      <<"d", "a", "t", "a", ":", "i", "m", "a", "g", "e", "/", "p", "n", "g", ";", "c", "h", "a", "r", "s", "e", "t", "=", "x", ";", "b", "a", "s", "e", "6", "4", ",", "Q", "Q">>,
      <<"d", "a", "t", "a", ":", "t", "e", "x", "t", ";", "b", "a", "s", "e", "6", "4", ",", "Q", "Q", "=", "=">> }

RemoteRefs ==
    { <<"h", "t", "t", "p", "s", ":", "/", "/", "h", "/", "a", ".", "j", "p", "g">>,
      <<"D", "A", "T", "A", ":", "i", "m", "a", "g", "e", "/", "p", "n", "g", ";", "b", "a", "s", "e", "6", "4", ",", "Q", "Q">> }

Refs == {Undefined, Null, Str(<<>>)}
            \cup {Str(s) : s \in InlineRefs \cup OddInlineRefs \cup RemoteRefs}

\* the text fields are all left out or all given
TextParts ==
    { [f \in TextFields \cup {"tanggal_pengajuan", "status"} |-> Undefined],
      [f \in TextFields \cup {"tanggal_pengajuan", "status"} |->
          IF f = "tanggal_pengajuan" THEN Str(<<"T", "1">>) ELSE Str(<<"x">>)] }

PayloadOf(text, foto, surat) ==
    [f \in DOMAIN EmptyPayload |->
        CASE f = "foto_ktp_url" -> foto
          [] f = "surat_keterangan_url" -> surat
          [] OTHER -> text[f]]

\* a body that cannot be parsed, no body, or a parsed object
Bodies ==
    { [kind |-> "malformed", payload |-> EmptyPayload],
      [kind |-> "undefined", payload |-> EmptyPayload] }
        \cup { [kind |-> "object", payload |-> PayloadOf(t, f, s)] :
                  t \in TextParts, f \in Refs, s \in Refs }

payload == req.body.payload

-----------------------------------------------------------------------------
(* The handler *)

Init ==
    /\ req \in [method : Methods, body : Bodies]
    /\ env \in Envs
    /\ pc = "start"
    /\ calls = <<>>
    /\ responses = <<>>
    /\ headers = NoHeaders
    /\ log = <<>>
    /\ sendMessageData = Unset

\* lines 10-13
RejectMethod ==
    /\ pc = "start"
    /\ ~MethodAllowed(req.method)
    /\ headers' = [headers EXCEPT !.Allow = "POST"]
    /\ responses' = Append(responses, MethodNotAllowed)
    /\ pc' = "done"
    /\ UNCHANGED <<req, env, calls, log, sendMessageData>>

\* lines 15-19
RejectMissingEnv ==
    /\ pc = "start"
    /\ MethodAllowed(req.method)
    /\ EnvMissing(env)
    /\ responses' = Append(responses, MissingEnvResponse)
    /\ pc' = "done"
    /\ UNCHANGED <<req, env, calls, headers, log, sendMessageData>>

\* line 22: reading req.body throws when the body cannot be parsed
BodyThrows ==
    /\ pc = "start"
    /\ MethodAllowed(req.method)
    /\ ~EnvMissing(env)
    /\ req.body.kind = "malformed"
    /\ pc' = "catch"
    /\ UNCHANGED <<req, env, calls, responses, headers, log, sendMessageData>>

\* lines 22-66: compose the summary and start the sendMessage call
SendSummary ==
    /\ pc = "start"
    /\ MethodAllowed(req.method)
    /\ ~EnvMissing(env)
    /\ req.body.kind # "malformed"
    /\ calls' = Append(calls, SendMessageCall(SummaryText(payload)))
    /\ pc' = AwaitPc("summary")
    /\ UNCHANGED <<req, env, responses, headers, log, sendMessageData>>

\* line 57: fetch rejects
SummaryFetchRejects ==
    /\ pc = "awaitSummary"
    /\ calls' = Settle(calls, "rejected")
    /\ pc' = "catch"
    /\ UNCHANGED <<req, env, responses, headers, log, sendMessageData>>

\* line 67: the response arrives and its body is not JSON
SummaryBodyUnreadable ==
    /\ pc = "awaitSummary"
    /\ calls' = Settle(calls, "fulfilled")
    /\ pc' = "catch"
    /\ UNCHANGED <<req, env, responses, headers, log, sendMessageData>>

\* lines 67-72: the response arrives and its body is read
SummaryBodyRead ==
    /\ pc = "awaitSummary"
    /\ \E data \in {JsonNull, JsonObject(TRUE), JsonObject(FALSE)} :
          /\ sendMessageData' = data
          /\ log' = log \o SummaryLog(data)
          /\ pc' = AfterSummary(data)
    /\ calls' = Settle(calls, "fulfilled")
    /\ UNCHANGED <<req, env, responses, headers>>


\* lines 109-112: the attachment is absent, or inline and not parseable
FotoSkipped ==
    /\ pc = "foto"
    /\ LET v == foto_ktp_url(payload)
       IN  \/ ~Truthy(v)
           \/ /\ isDataUrl(v)
              /\ ~parseDataUrl(v.s, S_foto_ktp).matched
    /\ pc' = NextStage("foto")
    /\ UNCHANGED <<req, env, calls, responses, headers, log, sendMessageData>>

\* lines 93-101, 115: uploadFile builds the form and starts the call
FotoUploadStarts ==
    /\ pc = "foto"
    /\ LET v == foto_ktp_url(payload)
           parsed == parseDataUrl(v.s, S_foto_ktp)
       IN  /\ Truthy(v)
           /\ isDataUrl(v)
           /\ parsed.matched
           /\ calls' = Append(calls, FotoUpload(parsed))
    /\ pc' = AwaitPc("foto")
    /\ UNCHANGED <<req, env, responses, headers, log, sendMessageData>>

\* lines 93-101, 115: formData.append refuses the Buffer and uploadFile throws before
\* any call is started (whether it does depends on the runtime's FormData)
FotoAppendThrows ==
    /\ pc = "foto"
    /\ LET v == foto_ktp_url(payload)
       IN  /\ Truthy(v)
           /\ isDataUrl(v)
           /\ parseDataUrl(v.s, S_foto_ktp).matched
    /\ log' = Append(log, Warn("failed sending foto_ktp (dataurl)"))
    /\ pc' = AttachmentCatch("foto")
    /\ UNCHANGED <<req, env, calls, responses, headers, sendMessageData>>

\* lines 120-127: a reference that is no data URL is handed over as it is
FotoByUrlStarts ==
    /\ pc = "foto"
    /\ LET v == foto_ktp_url(payload)
       IN  /\ Truthy(v)
           /\ ~isDataUrl(v)
           /\ calls' = Append(calls, FotoByUrl(v.s))
    /\ pc' = AwaitPc("foto")
    /\ UNCHANGED <<req, env, responses, headers, log, sendMessageData>>

\* lines 101-105, 114-131: the awaited call rejects, or (upload only) the body of its
\* response is not JSON; the block's catch logs it
FotoCallFails ==
    /\ pc = "awaitFoto"
    /\ \E state \in {"rejected", "fulfilled"} :
          /\ state = "fulfilled" => calls[Len(calls)].kind = "multipart"
          /\ calls' = Settle(calls, state)
    /\ log' = Append(log, Warn(IF calls[Len(calls)].kind = "multipart"
                               THEN "failed sending foto_ktp (dataurl)"
                               ELSE "failed sending foto_ktp (url)"))
    /\ pc' = AttachmentCatch("foto")
    /\ UNCHANGED <<req, env, responses, headers, sendMessageData>>

\* lines 101-105, 114-131: the awaited call completes; what the platform answered is not
\* looked at
FotoCallCompletes ==
    /\ pc = "awaitFoto"
    /\ calls' = Settle(calls, "fulfilled")
    /\ pc' = NextStage("foto")
    /\ UNCHANGED <<req, env, responses, headers, log, sendMessageData>>

\* lines 135-138: the attachment is absent, or inline and not parseable
SuratSkipped ==
    /\ pc = "surat"
    /\ LET v == surat_keterangan_url(payload)
       IN  \/ ~Truthy(v)
           \/ /\ isDataUrl(v)
              /\ ~parseDataUrl(v.s, S_surat_keterangan).matched
    /\ pc' = NextStage("surat")
    /\ UNCHANGED <<req, env, calls, responses, headers, log, sendMessageData>>

\* lines 93-101, 139-145: uploadFile builds the form and starts the call
SuratUploadStarts ==
    /\ pc = "surat"
    /\ LET v == surat_keterangan_url(payload)
           parsed == parseDataUrl(v.s, S_surat_keterangan)
       IN  /\ Truthy(v)
           /\ isDataUrl(v)
           /\ parsed.matched
           /\ calls' = Append(calls, SuratUpload(parsed))
    /\ pc' = AwaitPc("surat")
    /\ UNCHANGED <<req, env, responses, headers, log, sendMessageData>>

\* lines 93-101, 139-145: formData.append refuses the Buffer and uploadFile throws before
\* any call is started (whether it does depends on the runtime's FormData)
SuratAppendThrows ==
    /\ pc = "surat"
    /\ LET v == surat_keterangan_url(payload)
       IN  /\ Truthy(v)
           /\ isDataUrl(v)
           /\ parseDataUrl(v.s, S_surat_keterangan).matched
    /\ log' = Append(log, Warn("failed sending surat_keterangan (dataurl)"))
    /\ pc' = AttachmentCatch("surat")
    /\ UNCHANGED <<req, env, calls, responses, headers, sendMessageData>>

\* lines 150-157: a reference that is no data URL is handed over as it is
SuratByUrlStarts ==
    /\ pc = "surat"
    /\ LET v == surat_keterangan_url(payload)
       IN  /\ Truthy(v)
           /\ ~isDataUrl(v)
           /\ calls' = Append(calls, SuratByUrl(v.s))
    /\ pc' = AwaitPc("surat")
    /\ UNCHANGED <<req, env, responses, headers, log, sendMessageData>>

\* lines 101-105, 140-161: the awaited call rejects, or (upload only) the body of its
\* response is not JSON; the block's catch logs it
SuratCallFails ==
    /\ pc = "awaitSurat"
    /\ \E state \in {"rejected", "fulfilled"} :
          /\ state = "fulfilled" => calls[Len(calls)].kind = "multipart"
          /\ calls' = Settle(calls, state)
    /\ log' = Append(log, Warn(IF calls[Len(calls)].kind = "multipart"
                               THEN "failed sending surat_keterangan (dataurl)"
                               ELSE "failed sending surat_keterangan (url)"))
    /\ pc' = AttachmentCatch("surat")
    /\ UNCHANGED <<req, env, responses, headers, sendMessageData>>

\* lines 101-105, 140-161: the awaited call completes; what the platform answered is not
\* looked at
SuratCallCompletes ==
    /\ pc = "awaitSurat"
    /\ calls' = Settle(calls, "fulfilled")
    /\ pc' = NextStage("surat")
    /\ UNCHANGED <<req, env, responses, headers, log, sendMessageData>>

\* line 164
Respond ==
    /\ pc = "respond"
    /\ responses' = Append(responses, OkResponse)
    /\ pc' = "done"
    /\ UNCHANGED <<req, env, calls, headers, log, sendMessageData>>

\* lines 165-168
Catch ==
    /\ pc = "catch"
    /\ log' = Append(log, [level |-> "error", msg |-> "telegram error"])
    /\ responses' = Append(responses, ServerErrorResponse)
    /\ pc' = "done"
    /\ UNCHANGED <<req, env, calls, headers, sendMessageData>>

Next ==
    \/ RejectMethod
    \/ RejectMissingEnv
    \/ BodyThrows
    \/ SendSummary
    \/ SummaryFetchRejects
    \/ SummaryBodyUnreadable
    \/ SummaryBodyRead
    \/ FotoSkipped
    \/ FotoUploadStarts
    \/ FotoAppendThrows
    \/ FotoByUrlStarts
    \/ FotoCallFails
    \/ FotoCallCompletes
    \/ SuratSkipped
    \/ SuratUploadStarts
    \/ SuratAppendThrows
    \/ SuratByUrlStarts
    \/ SuratCallFails
    \/ SuratCallCompletes
    \/ Respond
    \/ Catch

Spec == Init /\ [][Next]_vars

-----------------------------------------------------------------------------
(* Vocabulary of the properties, stated on the request and on what the    *)
(* handler did, independently of the handler's own helpers                *)

Posted == req.method = "POST"

Configured == env.BOT_TOKEN /\ env.CHAT_ID

BodyReadable == req.body.kind # "malformed"

Attachments == {"foto_ktp", "surat_keterangan"}

\* the reference the request carries for an attachment
RefOf(a) ==
    IF a = "foto_ktp" THEN req.body.payload.foto_ktp_url
    ELSE req.body.payload.surat_keterangan_url

Other(a) == IF a = "foto_ktp" THEN "surat_keterangan" ELSE "foto_ktp"

\* present: not absent, not null, not the empty string
Present(v) == v.type = "string" /\ Len(v.s) > 0

Inline(v) == Present(v) /\ Len(v.s) >= 5 /\ SubSeq(v.s, 1, 5) = S_data

\* s is data:<media-type>;base64,<payload> with the media type running from
\* character 6 to character i: not empty, free of ';', and a payload on one line
InlineShape(s, i) ==
    /\ \A k \in 6..i : s[k] # ";"
    /\ Len(s) >= i + 8
    /\ SubSeq(s, i + 1, i + 8) = S_base64
    /\ \A k \in (i + 9)..Len(s) : s[k] \notin {"\n", "\r"}

Parseable(v) == Inline(v) /\ \E i \in 6..Len(v.s) : InlineShape(v.s, i)

Unparseable(v) == Inline(v) /\ ~Parseable(v)

Remote(v) == Present(v) /\ ~Inline(v)

\* the declared media type of a parseable inline reference
MediaTypeOf(v) ==
    LET i == CHOOSE j \in 6..Len(v.s) : InlineShape(v.s, j)
    IN  SubSeq(v.s, 6, i)

IsImageType(m) == Len(m) >= 6 /\ SubSeq(m, 1, 6) = S_image

CallsFor(a) == {i \in 1..Len(calls) : calls[i].purpose = a}

Logged(level, msg) == \E i \in 1..Len(log) : log[i] = [level |-> level, msg |-> msg]

FailureLogged(a) ==
    IF a = "foto_ktp"
    THEN \/ Logged("warn", "failed sending foto_ktp (dataurl)")
         \/ Logged("warn", "failed sending foto_ktp (url)")
    ELSE \/ Logged("warn", "failed sending surat_keterangan (dataurl)")
         \/ Logged("warn", "failed sending surat_keterangan (url)")

\* an attempt was made for the attachment: a call was started, or the upload
\* failed before its call and was logged
Attempted(a) == CallsFor(a) # {} \/ FailureLogged(a)

AllSettled == \A i \in 1..Len(calls) : calls[i].state # "pending"

Answered(status, ok, error) ==
    responses = <<[status |-> status, ok |-> ok, error |-> error]>>

AnsweredOk == Answered(200, TRUE, "none")

AnsweredServerError == Answered(500, FALSE, "SERVER_ERROR")

Done == pc = "done"

\* the summary step ran to its end: the call returned, its body was read and
\* carries an ok flag
SummaryCompleted == sendMessageData.kind = "object"

\* the ways the summary call can fail that the handler tells apart
SummaryThrew == calls # <<>> /\ calls[1].state = "rejected"

SummaryUnreadable ==
    calls # <<>> /\ calls[1].state = "fulfilled" /\ sendMessageData.kind = "unset"

SummaryNotOk == sendMessageData.kind = "object" /\ ~sendMessageData.ok

\* every present attachment that can be sent was attempted
AttachmentsAttempted ==
    \A a \in Attachments :
        (Parseable(RefOf(a)) \/ Remote(RefOf(a))) => Attempted(a)

-----------------------------------------------------------------------------
(* C1 *)

\* C1 as stated: however the summary send fails (the call throws, its body
\* cannot be read, or it answers ok=false), the failure is only logged, the
\* attachment attempts follow and the request is answered 200.
C1_AnySummaryFailureNonFatal ==
    (Done /\ (SummaryThrew \/ SummaryUnreadable \/ SummaryNotOk)) =>
        /\ AnsweredOk
        /\ ~Logged("error", "telegram error")
        /\ AttachmentsAttempted

\* C1 amended: a summary send that answers ok=false is only logged (a
\* warning, no error), never reaches the top-level catch, and the handler
\* ends with 200 after attempting every present attachment; a summary call
\* that throws or whose body cannot be read is answered 500 SERVER_ERROR
\* with no attachment call.
C1_NotOkSummaryNonFatal ==
    /\ SummaryNotOk =>
          /\ Logged("warn", "sendMessage failed")
          /\ ~Logged("error", "telegram error")
          /\ pc # "catch"
          /\ Done => (AnsweredOk /\ AttachmentsAttempted)
    /\ (Done /\ (SummaryThrew \/ SummaryUnreadable)) =>
          (AnsweredServerError /\ Len(calls) = 1)

C1_Witness ==
    /\ Done
    /\ SummaryNotOk
    /\ AnsweredOk
    /\ CallsFor("foto_ktp") # {}
    /\ CallsFor("surat_keterangan") # {}

-----------------------------------------------------------------------------
(* C2 *)

\* C2 as stated: any request received while a secret is absent is answered
\* 500 MISSING_ENV and makes no outbound call.
C2_AnyRequestMissingEnv ==
    ~Configured =>
        /\ calls = <<>>
        /\ Done => Answered(500, FALSE, "MISSING_ENV")

\* C2 amended: any POST request received while BOT_TOKEN or CHAT_ID is
\* absent is answered 500 MISSING_ENV and makes no outbound call (a request
\* of another method is answered 405 first).
C2_PostMissingEnv ==
    (Posted /\ ~Configured) =>
        /\ calls = <<>>
        /\ pc \in {"start", "done"}
        /\ Done => Answered(500, FALSE, "MISSING_ENV")

C2_Witness ==
    /\ Done
    /\ Posted
    /\ env.BOT_TOKEN
    /\ ~env.CHAT_ID
    /\ Present(RefOf("foto_ktp"))
    /\ Answered(500, FALSE, "MISSING_ENV")

-----------------------------------------------------------------------------
(* C3 *)

\* C3: a request whose method is not POST is answered 405
\* METHOD_NOT_ALLOWED with the header Allow: POST, and makes no outbound
\* call.
C3_MethodNotAllowed ==
    ~Posted =>
        /\ calls = <<>>
        /\ pc \in {"start", "done"}
        /\ Done => (Answered(405, FALSE, "METHOD_NOT_ALLOWED") /\ headers.Allow = "POST")

C3_Witness ==
    /\ Done
    /\ req.method = "PUT"
    /\ Configured
    /\ Remote(RefOf("foto_ktp"))
    /\ Answered(405, FALSE, "METHOD_NOT_ALLOWED")

-----------------------------------------------------------------------------
(* C4 *)

\* C4: once the summary send has completed, the handler never reaches the
\* top-level catch, the only response is 200 {ok: true}, and it is sent
\* after both attachment attempts have finished (every call settled, every
\* sendable attachment attempted), whatever the attempts' outcomes.
C4_AttachmentFailuresDoNotDowngrade ==
    (Posted /\ Configured /\ SummaryCompleted) =>
        /\ pc # "catch"
        /\ ~Logged("error", "telegram error")
        /\ responses # <<>> => (AnsweredOk /\ AllSettled /\ AttachmentsAttempted)
        /\ Done => AnsweredOk

\* the photo call was rejected and the document upload failed, and the
\* response is 200
C4_Witness ==
    /\ Done
    /\ SummaryCompleted
    /\ AnsweredOk
    /\ \E i \in CallsFor("foto_ktp") : calls[i].state = "rejected"
    /\ Logged("warn", "failed sending surat_keterangan (dataurl)")

-----------------------------------------------------------------------------
(* C5 *)

Rank(a) ==
    CASE a = "summary" -> 1
      [] a = "foto_ktp" -> 2
      [] a = "surat_keterangan" -> 3

\* C5: the calls of an invocation are started in the order summary, photo,
\* document, each at most once and at most three in all, and a call is
\* started only when every earlier call has settled.
C5_SequentialAtMostOnce ==
    /\ Len(calls) <= 3
    /\ \A i, j \in 1..Len(calls) :
          i < j => Rank(calls[i].purpose) < Rank(calls[j].purpose)
    /\ calls # <<>> => calls[1].purpose = "summary"
    /\ \A i \in 1..Len(calls) : i < Len(calls) => calls[i].state # "pending"

\* three calls were made, the second failed and the third is in flight
C5_Witness ==
    /\ Len(calls) = 3
    /\ calls[2].state = "rejected"
    /\ calls[3].state = "pending"

-----------------------------------------------------------------------------
(* C6 *)

\* C6 as stated: with an inline reference that is not of the shape
\* data:<media-type>;base64,<payload>, no call is made for that attachment,
\* the other attachment is still processed and the response is 200.
C6_UnparseableSkippedAlwaysOk ==
    \A a \in Attachments :
        (Posted /\ Configured /\ BodyReadable /\ Unparseable(RefOf(a)) /\ Done) =>
            /\ CallsFor(a) = {}
            /\ (Parseable(RefOf(Other(a))) \/ Remote(RefOf(Other(a))))
                  => Attempted(Other(a))
            /\ AnsweredOk

\* C6 amended: such a reference never leads to a call for its attachment
\* nor to a logged failure; when the summary step completed, the other
\* attachment is still attempted and the response is 200 (when the summary
\* step threw, the response is 500 SERVER_ERROR as for any request).
C6_UnparseableSkipped ==
    \A a \in Attachments :
        Unparseable(RefOf(a)) =>
            /\ CallsFor(a) = {}
            /\ ~FailureLogged(a)
            /\ (Done /\ SummaryCompleted) =>
                  /\ AnsweredOk
                  /\ (Parseable(RefOf(Other(a))) \/ Remote(RefOf(Other(a))))
                        => Attempted(Other(a))
            /\ (Done /\ Posted /\ Configured /\ ~SummaryCompleted) =>
                  AnsweredServerError

\* the photo reference carries a line break in its payload, the document
\* was uploaded, and the response is 200
C6_Witness ==
    /\ Done
    /\ AnsweredOk
    /\ Unparseable(RefOf("foto_ktp"))
    /\ \E k \in 1..Len(RefOf("foto_ktp").s) : RefOf("foto_ktp").s[k] = "\n"
    /\ CallsFor("foto_ktp") = {}
    /\ \E i \in CallsFor("surat_keterangan") : calls[i].state = "fulfilled"

-----------------------------------------------------------------------------
(* C7 *)

NoAttachments == \A a \in Attachments : ~Present(RefOf(a))

\* C7 as stated: a configured POST without attachments ends with exactly
\* one call, the sendMessage summary, and the response 200.
C7_NoAttachmentsOneCallAlwaysOk ==
    (Posted /\ Configured /\ BodyReadable /\ NoAttachments /\ Done) =>
        /\ Len(calls) = 1
        /\ calls[1].method = "sendMessage"
        /\ AnsweredOk

\* C7 amended: a configured POST without attachments ends with exactly one
\* call, the sendMessage summary, and with the response 200 when the
\* summary step completed (500 SERVER_ERROR when it threw); a call for an
\* attachment is made only if the attachment is present.
C7_NoAttachmentsOneCall ==
    /\ \A a \in Attachments : CallsFor(a) # {} => Present(RefOf(a))
    /\ (Posted /\ Configured /\ BodyReadable /\ NoAttachments /\ Done) =>
          /\ Len(calls) = 1
          /\ calls[1].method = "sendMessage"
          /\ calls[1].purpose = "summary"
          /\ SummaryCompleted => AnsweredOk
          /\ ~SummaryCompleted => AnsweredServerError

\* one reference null, the other the empty string
C7_Witness ==
    /\ Done
    /\ RefOf("foto_ktp") = Null
    /\ RefOf("surat_keterangan") = Str(<<>>)
    /\ Len(calls) = 1
    /\ AnsweredOk

-----------------------------------------------------------------------------
(* C8 *)

\* C8: a call made for the supporting document is a multipart sendPhoto
\* with field photo when the reference is inline with a media type starting
\* with image/, a multipart sendDocument with field document when it is
\* inline with another media type, and a JSON sendDocument carrying the
\* reference as document when it is a remote URL.
C8_SuratRouting ==
    \A i \in CallsFor("surat_keterangan") :
        LET v == RefOf("surat_keterangan")
            c == calls[i]
        IN  IF Inline(v)
            THEN /\ Parseable(v)
                 /\ c.kind = "multipart"
                 /\ IF IsImageType(MediaTypeOf(v))
                    THEN c.method = "sendPhoto" /\ c.body.fieldName = "photo"
                    ELSE c.method = "sendDocument" /\ c.body.fieldName = "document"
            ELSE /\ Remote(v)
                 /\ c.kind = "json"
                 /\ c.method = "sendDocument"
                 /\ "document" \in DOMAIN c.body
                 /\ c.body.document = v.s

\* an inline image/svg+xml document went out as a photo
C8_Witness ==
    /\ Parseable(RefOf("surat_keterangan"))
    /\ IsImageType(MediaTypeOf(RefOf("surat_keterangan")))
    /\ Len(MediaTypeOf(RefOf("surat_keterangan"))) > 10
    /\ \E i \in CallsFor("surat_keterangan") :
          calls[i].method = "sendPhoto" /\ calls[i].state = "fulfilled"

-----------------------------------------------------------------------------
(* C9 *)

\* C9: a call made for the identification photo is always a sendPhoto:
\* multipart with field photo when the reference is inline, whatever its
\* media type, and JSON carrying the reference unchanged as photo when it
\* is a remote URL.
C9_FotoRouting ==
    \A i \in CallsFor("foto_ktp") :
        LET v == RefOf("foto_ktp")
            c == calls[i]
        IN  /\ c.method = "sendPhoto"
            /\ IF Inline(v)
               THEN /\ Parseable(v)
                    /\ c.kind = "multipart"
                    /\ c.body.fieldName = "photo"
               ELSE /\ Remote(v)
                    /\ c.kind = "json"
                    /\ "photo" \in DOMAIN c.body
                    /\ c.body.photo = v.s

\* an inline identification photo declared application/pdf went out with
\* sendPhoto
C9_Witness ==
    /\ Parseable(RefOf("foto_ktp"))
    /\ ~IsImageType(MediaTypeOf(RefOf("foto_ktp")))
    /\ \E i \in CallsFor("foto_ktp") :
          calls[i].method = "sendPhoto" /\ calls[i].state = "fulfilled"

-----------------------------------------------------------------------------
(* C10 *)

ResponseKinds ==
    { [status |-> 405, ok |-> FALSE, error |-> "METHOD_NOT_ALLOWED"],
      [status |-> 500, ok |-> FALSE, error |-> "MISSING_ENV"],
      [status |-> 500, ok |-> FALSE, error |-> "SERVER_ERROR"],
      [status |-> 200, ok |-> TRUE, error |-> "none"] }

C10_OneResponse ==
    /\ Len(responses) <= 1
    /\ Done <=> Len(responses) = 1
    /\ responses # <<>> => (responses[1] \in ResponseKinds /\ AllSettled)
    /\ Done => (Logged("error", "telegram error") <=> AnsweredServerError)
    /\ (Done /\ (SummaryThrew \/ SummaryUnreadable)) => AnsweredServerError
    /\ (Done /\ Posted /\ Configured /\ ~BodyReadable) => AnsweredServerError

\* C10: the handler sends at most one response and has sent exactly one
\* when it ends, one of 405 METHOD_NOT_ALLOWED, 500 MISSING_ENV, 500
\* SERVER_ERROR and 200 {ok: true}; it is 500 SERVER_ERROR exactly when an
\* exception reached the top-level catch (among them a summary call that
\* throws or whose body is not JSON); and no call is started once a response
\* has been sent.
C10_ExactlyOneResponse ==
    /\ []C10_OneResponse
    /\ [][responses # <<>> => calls' = calls]_vars

\* the summary response was not JSON and the request was answered 500
C10_Witness ==
    /\ Done
    /\ SummaryUnreadable
    /\ AnsweredServerError
    /\ Present(RefOf("foto_ktp"))

=============================================================================
